---- MODULE Spec2Model ----
(***************************************************************************)
(* Model of package common of portainer-stack-utils: the by-name entity    *)
(* resolvers, the default endpoint resolver, the swarm cluster resolver    *)
(* with its generic value selector, and the two access-control lookups.    *)
(* Every exported function is one action; the API client and GetClient are *)
(* the environment, whose answers are drawn from small sets.               *)
(***************************************************************************)
EXTENDS Integers, Sequences, FiniteSets, TLC

VARIABLES op, args, ret

vars == <<op, args, ret>>

(* ------------------------------ bounds --------------------------------- *)

\* Longest collection the API client answers with.
MaxLen == 2
\* Largest entity identifier.
MaxID == 2
\* Longest key path handed to selectValue.
MaxPathLen == 3

(* ------------------------------ errors --------------------------------- *)

Nil == "<nil>"

ErrStackNotFound == "Stack not found"
ErrStackClusterNotFound == "Stack cluster not found"
ErrEndpointNotFound == "Endpoint not found"
ErrEndpointGroupNotFound == "Endpoint group not found"
ErrSeveralEndpointsAvailable == "Several endpoints available"
ErrNoEndpointsAvailable == "No endpoints available"
ErrUserNotFound == "User not found"
ErrAccessControlNotFound == "Access control not found"
valueNotFoundError == "Value not found"

\* Errors of the API client (transport and JSON decoding).
TransportErrors == {"connection refused", "invalid JSON"}
\* What GetClient answers as its error: nil or a failure.  The client is
\* built once per process and kept, so one invocation sees one outcome.
GetClientResults == {Nil, "client unavailable"}

(* ------------------------------ entities ------------------------------- *)

Names == {"prod", "staging"}
IDs == 1..MaxID

Endpoints == [ID : IDs, Name : Names]
EndpointGroups == [ID : IDs, Name : Names]
Stacks == [ID : IDs, Name : Names]
Users == [ID : IDs, Username : Names]
ResourceControls == [ID : 0..MaxID, ResourceID : {"", "vol1"}]

ZeroEndpoint == [ID |-> 0, Name |-> ""]
ZeroEndpointGroup == [ID |-> 0, Name |-> ""]
ZeroStack == [ID |-> 0, Name |-> ""]
ZeroUser == [ID |-> 0, Username |-> ""]
ZeroResourceControl == [ID |-> 0, ResourceID |-> ""]

ResourceTypes == {"volume", "config"}
ResourceIDs == {"vol1"}

\* Slices of at most MaxLen elements.
SeqsUpTo(S) == UNION {[1..n -> S] : n \in 0..MaxLen}

\* A (value, error) answer of the API client; a failed call may still hand
\* back any value of the result type.
Responses(vals) == [val : vals, err : {Nil} \cup TransportErrors]

(* --------------------------- JSON documents ---------------------------- *)

Null == [kind |-> "null"]
Str(s) == [kind |-> "string", s |-> s]
Num(n) == [kind |-> "number", n |-> n]
Map(m) == [kind |-> "map", m |-> m]

EmptyMap == [k \in {} |-> Null]
Leaves == {Null, Str("abc"), Num(7)}

\* Mappings that may hold key k (with a value of vals) and a sibling "Name".
MapsWith(k, vals) ==
    LET base == {EmptyMap} \cup {k :> v : v \in vals}
    IN  base \cup {m @@ ("Name" :> Str("host")) : m \in base}

ClusterMaps == MapsWith("ID", Leaves)
SwarmMaps == MapsWith("Cluster", Leaves \cup {Map(m) : m \in ClusterMaps})
\* Docker info documents as map[string]interface{}.
DockerInfos == MapsWith("Swarm", Leaves \cup {Map(m) : m \in SwarmMaps})

PathKeys == {"Swarm", "Cluster", "ID", "Name"}
JSONPaths == UNION {[1..n -> PathKeys] : n \in 1..MaxPathLen}
SwarmClusterIDPath == <<"Swarm", "Cluster", "ID">>

(* ------------------------- calls and results --------------------------- *)

Call(api, arg, resp) == [api |-> api, arg |-> arg, resp |-> resp]
NoArg == <<>>

Ret(val, err, calls) == [val |-> val, err |-> err, panic |-> FALSE, calls |-> calls]
Panic(calls) == [val |-> Null, err |-> Nil, panic |-> TRUE, calls |-> calls]

(* ----------------------------- functions ------------------------------- *)

\* for _, e := range list { if e.<field> == name { return e } }
RECURSIVE ScanFrom(_, _, _, _)
ScanFrom(list, field, name, i) ==
    IF i > Len(list) THEN 0
    ELSE IF list[i][field] = name THEN i
    ELSE ScanFrom(list, field, name, i + 1)

\* Faulty variant of Scan: the last match wins instead of the first.
Scan_LastMatch(list, field, name) ==
    LET M == {i \in 1..Len(list) : list[i][field] = name}
    IN  IF M = {} THEN 0 ELSE CHOOSE i \in M : \A j \in M : j <= i

Scan(list, field, name) == ScanFrom(list, field, name, 1)

\* Faulty variant of GetDefaultEndpoint: the len(endpoints) > 1 test is
\* missing, so the first of several endpoints is returned.
GetDefaultEndpoint_NoSeveralTest(gc, resp) ==
    IF gc # Nil THEN Ret(ZeroEndpoint, gc, <<>>)
    ELSE LET calls == <<Call("EndpointList", NoArg, resp)>>
             endpoints == resp.val
         IN  IF resp.err # Nil THEN Ret(ZeroEndpoint, resp.err, calls)
             ELSE IF Len(endpoints) = 0
                  THEN Ret(ZeroEndpoint, ErrNoEndpointsAvailable, calls)
             ELSE Ret(endpoints[1], Nil, calls)

GetDefaultEndpoint(gc, resp) ==
    IF gc # Nil THEN Ret(ZeroEndpoint, gc, <<>>)
    ELSE LET calls == <<Call("EndpointList", NoArg, resp)>>
             endpoints == resp.val
         IN  IF resp.err # Nil THEN Ret(ZeroEndpoint, resp.err, calls)
             ELSE IF Len(endpoints) = 0
                  THEN Ret(ZeroEndpoint, ErrNoEndpointsAvailable, calls)
             ELSE IF Len(endpoints) > 1
                  THEN Ret(ZeroEndpoint, ErrSeveralEndpointsAvailable, calls)
             ELSE Ret(endpoints[1], Nil, calls)

\* Faulty variant of GetStackByName: a failed StackList is tried again.
GetStackByName_Retry(name, swarmID, endpointID, gc, resp) ==
    IF gc # Nil THEN Ret(ZeroStack, gc, <<>>)
    ELSE LET filter == [SwarmID |-> swarmID, EndpointID |-> endpointID]
             call == Call("StackList", filter, resp)
             i == Scan(resp.val, "Name", name)
         IN  IF resp.err # Nil THEN Ret(ZeroStack, resp.err, <<call, call>>)
             ELSE IF i # 0 THEN Ret(resp.val[i], Nil, <<call>>)
             ELSE Ret(ZeroStack, ErrStackNotFound, <<call>>)

GetStackByName(name, swarmID, endpointID, gc, resp) ==
    IF gc # Nil THEN Ret(ZeroStack, gc, <<>>)
    ELSE LET filter == [SwarmID |-> swarmID, EndpointID |-> endpointID]
             calls == <<Call("StackList", filter, resp)>>
             i == Scan(resp.val, "Name", name)
         IN  IF resp.err # Nil THEN Ret(ZeroStack, resp.err, calls)
             ELSE IF i # 0 THEN Ret(resp.val[i], Nil, calls)
             ELSE Ret(ZeroStack, ErrStackNotFound, calls)

GetEndpointByName(name, gc, resp) ==
    IF gc # Nil THEN Ret(ZeroEndpoint, gc, <<>>)
    ELSE LET calls == <<Call("EndpointList", NoArg, resp)>>
             i == Scan(resp.val, "Name", name)
         IN  IF resp.err # Nil THEN Ret(ZeroEndpoint, resp.err, calls)
             ELSE IF i # 0 THEN Ret(resp.val[i], Nil, calls)
             ELSE Ret(ZeroEndpoint, ErrEndpointNotFound, calls)

GetEndpointGroupByName(name, gc, resp) ==
    IF gc # Nil THEN Ret(ZeroEndpointGroup, gc, <<>>)
    ELSE LET calls == <<Call("EndpointGroupList", NoArg, resp)>>
             i == Scan(resp.val, "Name", name)
         IN  IF resp.err # Nil THEN Ret(ZeroEndpointGroup, resp.err, calls)
             ELSE IF i # 0 THEN Ret(resp.val[i], Nil, calls)
             ELSE Ret(ZeroEndpointGroup, ErrEndpointGroupNotFound, calls)

GetEndpointFromListByID(endpoints, id) ==
    LET i == Scan(endpoints, "ID", id)
    IN  IF i # 0 THEN Ret(endpoints[i], Nil, <<>>)
        ELSE Ret(ZeroEndpoint, ErrEndpointNotFound, <<>>)

GetEndpointFromListByName(endpoints, name) ==
    LET i == Scan(endpoints, "Name", name)
    IN  IF i # 0 THEN Ret(endpoints[i], Nil, <<>>)
        ELSE Ret(ZeroEndpoint, ErrEndpointNotFound, <<>>)

\* Faulty variant of selectValue: only a missing key counts as not found,
\* a null value is handed back as a value.
RECURSIVE selectValue_KeyTest(_, _)
selectValue_KeyTest(jsonMap, jsonPath) ==
    LET key == Head(jsonPath)
    IN  IF key \notin DOMAIN jsonMap THEN Ret(Null, valueNotFoundError, <<>>)
        ELSE IF Len(jsonPath) > 1
             THEN IF jsonMap[key].kind = "map"
                  THEN selectValue_KeyTest(jsonMap[key].m, Tail(jsonPath))
                  ELSE Panic(<<>>)
        ELSE Ret(jsonMap[key], Nil, <<>>)

\* jsonMap is the Go map; indexing an absent key yields nil, as a JSON null
\* does.  value.(map[string]interface{}) panics on anything but a map.
RECURSIVE selectValue(_, _)
selectValue(jsonMap, jsonPath) ==
    LET key == Head(jsonPath)
        value == IF key \in DOMAIN jsonMap THEN jsonMap[key] ELSE Null
    IN  IF value = Null THEN Ret(Null, valueNotFoundError, <<>>)
        ELSE IF Len(jsonPath) > 1
             THEN IF value.kind = "map"
                  THEN selectValue(value.m, Tail(jsonPath))
                  ELSE Panic(<<>>)
        ELSE Ret(value, Nil, <<>>)

\* Faulty variant of GetEndpointSwarmClusterID: valueNotFoundError is
\* handed on instead of being turned into ErrStackClusterNotFound.
GetEndpointSwarmClusterID_Untranslated(endpointID, gc, resp) ==
    IF gc # Nil THEN Ret("", gc, <<>>)
    ELSE LET calls == <<Call("EndpointDockerInfo", endpointID, resp)>>
             sel == selectValue(resp.val, SwarmClusterIDPath)
         IN  IF resp.err # Nil THEN Ret("", resp.err, calls)
             ELSE IF sel.panic THEN Panic(calls)
             ELSE IF sel.err = Nil
                  THEN IF sel.val.kind = "string"
                       THEN Ret(sel.val.s, Nil, calls)
                       ELSE Panic(calls)
             ELSE Ret("", sel.err, calls)

GetEndpointSwarmClusterID(endpointID, gc, resp) ==
    IF gc # Nil THEN Ret("", gc, <<>>)
    ELSE LET calls == <<Call("EndpointDockerInfo", endpointID, resp)>>
             sel == selectValue(resp.val, SwarmClusterIDPath)
         IN  IF resp.err # Nil THEN Ret("", resp.err, calls)
             ELSE IF sel.panic THEN Panic(calls)
             ELSE IF sel.err = Nil
                  THEN IF sel.val.kind = "string"
                       THEN Ret(sel.val.s, Nil, calls)
                       ELSE Panic(calls)
             ELSE IF sel.err = valueNotFoundError
                  THEN Ret("", ErrStackClusterNotFound, calls)
             ELSE Ret("", sel.err, calls)

\* The error of UserList is not tested before the scan: a match returns the
\* user together with that error, no match overwrites it.
GetUserByName(name, gc, resp) ==
    IF gc # Nil THEN Ret(ZeroUser, gc, <<>>)
    ELSE LET calls == <<Call("UserList", NoArg, resp)>>
             i == Scan(resp.val, "Username", name)
         IN  IF i # 0 THEN Ret(resp.val[i], resp.err, calls)
             ELSE Ret(ZeroUser, ErrUserNotFound, calls)

pddrHasAccessControl(pddr) == pddr.Portainer.ResourceControl.ID # 0

\* Faulty variant of decoratedStack.hasAccessControl: another field of the
\* ResourceControl is taken for the sentinel.
dsHasAccessControl_OtherField(ds) == ds.ResourceControl.ResourceID # ""

dsHasAccessControl(ds) == ds.ResourceControl.ID # 0

DockerResourcePath(endpointID, resourceControlType, resourceID) ==
    <<"endpoints", endpointID, "docker", resourceControlType, resourceID>>

StackPath(stackID) == <<"stacks", stackID>>

GetDockerResourcePortainerAccessControl(endpointID, resourceID, resourceControlType, gc, resp) ==
    IF gc # Nil THEN Ret(ZeroResourceControl, gc, <<>>)
    ELSE LET path == DockerResourcePath(endpointID, resourceControlType, resourceID)
             calls == <<Call("DoJSONWithToken", path, resp)>>
             pddr == resp.val
         IN  IF resp.err # Nil THEN Ret(ZeroResourceControl, resp.err, calls)
             ELSE IF pddrHasAccessControl(pddr)
                  THEN Ret(pddr.Portainer.ResourceControl, Nil, calls)
             ELSE Ret(ZeroResourceControl, ErrAccessControlNotFound, calls)

\* Faulty variant of GetStackPortainerAccessControl: ErrStackClusterNotFound
\* is not tolerated.
GetStackPortainerAccessControl_Strict(endpointID, stackName, gc, info, stacks, get) ==
    LET r1 == GetEndpointSwarmClusterID(endpointID, gc, info)
        r2 == GetStackByName(stackName, r1.val, endpointID, gc, stacks)
        calls2 == r1.calls \o r2.calls
        calls3 == calls2 \o <<Call("DoJSONWithToken", StackPath(r2.val.ID), get)>>
        ds == get.val
    IN  IF r1.panic THEN Panic(r1.calls)
        ELSE IF r1.err # Nil THEN Ret(ZeroResourceControl, r1.err, r1.calls)
        ELSE IF r2.err # Nil THEN Ret(ZeroResourceControl, r2.err, calls2)
        ELSE IF gc # Nil THEN Ret(ZeroResourceControl, gc, calls2)
        ELSE IF get.err # Nil THEN Ret(ZeroResourceControl, get.err, calls3)
        ELSE IF dsHasAccessControl(ds) THEN Ret(ds.ResourceControl, Nil, calls3)
        ELSE Ret(ZeroResourceControl, ErrAccessControlNotFound, calls3)

\* info, stacks and get are the answers of the API client to the first,
\* second and third round trip; a round trip that is not reached ignores
\* its answer.
GetStackPortainerAccessControl(endpointID, stackName, gc, info, stacks, get) ==
    LET r1 == GetEndpointSwarmClusterID(endpointID, gc, info)
        r2 == GetStackByName(stackName, r1.val, endpointID, gc, stacks)
        calls2 == r1.calls \o r2.calls
        calls3 == calls2 \o <<Call("DoJSONWithToken", StackPath(r2.val.ID), get)>>
        ds == get.val
    IN  IF r1.panic THEN Panic(r1.calls)
        ELSE IF r1.err # Nil /\ r1.err # ErrStackClusterNotFound
             THEN Ret(ZeroResourceControl, r1.err, r1.calls)
        ELSE IF r2.err # Nil THEN Ret(ZeroResourceControl, r2.err, calls2)
        ELSE IF gc # Nil THEN Ret(ZeroResourceControl, gc, calls2)
        ELSE IF get.err # Nil THEN Ret(ZeroResourceControl, get.err, calls3)
        ELSE IF dsHasAccessControl(ds) THEN Ret(ds.ResourceControl, Nil, calls3)
        ELSE Ret(ZeroResourceControl, ErrAccessControlNotFound, calls3)

(* --------------------- answers of the environment ---------------------- *)

EndpointListResponses == Responses(SeqsUpTo(Endpoints))
EndpointGroupListResponses == Responses(SeqsUpTo(EndpointGroups))
StackListResponses == Responses(SeqsUpTo(Stacks))
UserListResponses == Responses(SeqsUpTo(Users))
DockerInfoResponses == Responses(DockerInfos)

\* Decoded portainerDecoratedDockerResource values.
DecoratedDockerResources == {[Portainer |-> [ResourceControl |-> rc]] : rc \in ResourceControls}
DecoratedDockerResourceResponses == Responses(DecoratedDockerResources)

\* Decoded decoratedStack values for GET stacks/<id>.
DecoratedStacks(stack) ==
    {[Stack |-> s, ResourceControl |-> rc] : s \in {stack, ZeroStack}, rc \in ResourceControls}
DecoratedStackResponses(stack) == Responses(DecoratedStacks(stack))

(* ------------------------------ actions -------------------------------- *)

Init ==
    /\ op = "none"
    /\ args = <<>>
    /\ ret = <<>>

Invoke(o, a, r) ==
    /\ op' = o
    /\ args' = a
    /\ ret' = r

CallGetDefaultEndpoint ==
    /\ op = "none"
    /\ \E gc \in GetClientResults, resp \in EndpointListResponses :
           Invoke("GetDefaultEndpoint", <<>>, GetDefaultEndpoint(gc, resp))

CallGetStackByName ==
    /\ op = "none"
    /\ \E name \in Names, swarmID \in {"", "abc"}, endpointID \in IDs,
          gc \in GetClientResults, resp \in StackListResponses :
           Invoke("GetStackByName",
                  [name |-> name, swarmID |-> swarmID, endpointID |-> endpointID],
                  GetStackByName(name, swarmID, endpointID, gc, resp))

CallGetEndpointByName ==
    /\ op = "none"
    /\ \E name \in Names, gc \in GetClientResults, resp \in EndpointListResponses :
           Invoke("GetEndpointByName", [name |-> name],
                  GetEndpointByName(name, gc, resp))

CallGetEndpointGroupByName ==
    /\ op = "none"
    /\ \E name \in Names, gc \in GetClientResults, resp \in EndpointGroupListResponses :
           Invoke("GetEndpointGroupByName", [name |-> name],
                  GetEndpointGroupByName(name, gc, resp))

CallGetEndpointFromListByID ==
    /\ op = "none"
    /\ \E endpoints \in SeqsUpTo(Endpoints), id \in IDs :
           Invoke("GetEndpointFromListByID", [endpoints |-> endpoints, id |-> id],
                  GetEndpointFromListByID(endpoints, id))

CallGetEndpointFromListByName ==
    /\ op = "none"
    /\ \E endpoints \in SeqsUpTo(Endpoints), name \in Names :
           Invoke("GetEndpointFromListByName", [endpoints |-> endpoints, name |-> name],
                  GetEndpointFromListByName(endpoints, name))

CallSelectValue ==
    /\ op = "none"
    /\ \E jsonMap \in DockerInfos, jsonPath \in JSONPaths :
           Invoke("selectValue", [jsonMap |-> jsonMap, jsonPath |-> jsonPath],
                  selectValue(jsonMap, jsonPath))

CallGetEndpointSwarmClusterID ==
    /\ op = "none"
    /\ \E endpointID \in IDs, gc \in GetClientResults, resp \in DockerInfoResponses :
           Invoke("GetEndpointSwarmClusterID", [endpointID |-> endpointID],
                  GetEndpointSwarmClusterID(endpointID, gc, resp))

CallGetUserByName ==
    /\ op = "none"
    /\ \E name \in Names, gc \in GetClientResults, resp \in UserListResponses :
           Invoke("GetUserByName", [name |-> name], GetUserByName(name, gc, resp))

CallGetDockerResourcePortainerAccessControl ==
    /\ op = "none"
    /\ \E endpointID \in IDs, resourceID \in ResourceIDs, type \in ResourceTypes,
          gc \in GetClientResults, resp \in DecoratedDockerResourceResponses :
           Invoke("GetDockerResourcePortainerAccessControl",
                  [endpointID |-> endpointID, resourceID |-> resourceID,
                   resourceControlType |-> type],
                  GetDockerResourcePortainerAccessControl(endpointID, resourceID, type, gc, resp))

\* The answers to a stage the function does not reach are immaterial: one
\* representative stands for them.
AnyStackList == [val |-> <<>>, err |-> Nil]
AnyDecoratedStack == [val |-> [Stack |-> ZeroStack, ResourceControl |-> ZeroResourceControl], err |-> Nil]

CallGetStackPortainerAccessControl ==
    /\ op = "none"
    /\ \E endpointID \in IDs, stackName \in Names,
          gc \in GetClientResults, info \in DockerInfoResponses :
           LET r1 == GetEndpointSwarmClusterID(endpointID, gc, info)
               go2 == ~r1.panic /\ r1.err \in {Nil, ErrStackClusterNotFound}
           IN  \E stacks \in (IF go2 THEN StackListResponses ELSE {AnyStackList}) :
                   LET r2 == GetStackByName(stackName, r1.val, endpointID, gc, stacks)
                       go3 == go2 /\ r2.err = Nil
                   IN  \E get \in (IF go3 THEN DecoratedStackResponses(r2.val)
                                          ELSE {AnyDecoratedStack}) :
                           Invoke("GetStackPortainerAccessControl",
                                  [endpointID |-> endpointID, stackName |-> stackName],
                                  GetStackPortainerAccessControl(endpointID, stackName,
                                      gc, info, stacks, get))

Next ==
    \/ CallGetDefaultEndpoint
    \/ CallGetStackByName
    \/ CallGetEndpointByName
    \/ CallGetEndpointGroupByName
    \/ CallGetEndpointFromListByID
    \/ CallGetEndpointFromListByName
    \/ CallSelectValue
    \/ CallGetEndpointSwarmClusterID
    \/ CallGetUserByName
    \/ CallGetDockerResourcePortainerAccessControl
    \/ CallGetStackPortainerAccessControl

Spec == Init /\ [][Next]_vars

(* ---------------------- vocabulary of the claims ----------------------- *)

Returned == op # "none" /\ ~ret.panic

NumCalls == Len(ret.calls)

\* The invocation made its i-th round trip and the API client answered it
\* without error.
FetchedOK(i) == NumCalls >= i /\ ret.calls[i].resp.err = Nil

ByNameOps == {"GetEndpointByName", "GetEndpointGroupByName", "GetStackByName", "GetUserByName"}

NameField(o) == IF o = "GetUserByName" THEN "Username" ELSE "Name"

NotFoundError(o) ==
    CASE o = "GetEndpointByName" -> ErrEndpointNotFound
      [] o = "GetEndpointGroupByName" -> ErrEndpointGroupNotFound
      [] o = "GetStackByName" -> ErrStackNotFound
      [] o = "GetUserByName" -> ErrUserNotFound

\* Indices of the elements of list whose name field is the query.
Matches(list, field, name) == {i \in 1..Len(list) : list[i][field] = name}

\* The value reached from document doc after the first n keys of path, or
\* Absent when a key is missing or its parent is no mapping.
Absent == [kind |-> "absent"]

RECURSIVE WalkTo(_, _, _)
WalkTo(doc, path, n) ==
    IF n = 0 THEN Map(doc)
    ELSE LET parent == WalkTo(doc, path, n - 1)
         IN  IF parent.kind = "map" /\ path[n] \in DOMAIN parent.m
             THEN parent.m[path[n]]
             ELSE Absent

\* Every value met before the last key is a mapping, as far as the walk gets.
IntermediatesAreMaps(doc, path) ==
    \A n \in 1..(Len(path) - 1) : WalkTo(doc, path, n).kind \in {"map", "absent"}

\* Some key of the path is missing from the mapping it is looked up in.
SomeKeyAbsent(doc, path) ==
    \E n \in 1..Len(path) :
        /\ WalkTo(doc, path, n) = Absent
        /\ WalkTo(doc, path, n - 1).kind = "map"

\* A value met before the last key is present and is neither a mapping nor
\* null.
ScalarOnPath(doc, path) ==
    \E n \in 1..(Len(path) - 1) :
        WalkTo(doc, path, n).kind \in {"string", "number"}

(* -------------------------------- C1 ----------------------------------- *)

\* C1: after a successful list fetch, each by-name resolver returns the
\* first element in collection order whose name field equals the query,
\* returns its kind-specific not-found error exactly when no element has
\* that name, and never returns an element with another name.
C1_FirstExactMatch ==
    (op \in ByNameOps /\ FetchedOK(1)) =>
        LET list == ret.calls[1].resp.val
            field == NameField(op)
            M == Matches(list, field, args.name)
        IN  /\ ~ret.panic
            /\ M # {} => /\ ret.err = Nil
                         /\ \E i \in M : (\A j \in M : i <= j) /\ ret.val = list[i]
            /\ M = {} <=> ret.err = NotFoundError(op)
            /\ ret.err = Nil => ret.val[field] = args.name

\* Two elements carry the queried name and the first one is returned.
C1_Witness ==
    /\ op = "GetUserByName"
    /\ FetchedOK(1)
    /\ LET list == ret.calls[1].resp.val
       IN  /\ Len(list) = 2
           /\ list[1].Username = args.name
           /\ list[2].Username = args.name
           /\ list[1] # list[2]
           /\ ret.val = list[1]
           /\ ret.err = Nil

(* -------------------------------- C2 ----------------------------------- *)

\* C2: after a successful endpoint list fetch, GetDefaultEndpoint answers an
\* empty list with ErrNoEndpointsAvailable, a one-element list with that
\* element and no error, a longer list with ErrSeveralEndpointsAvailable,
\* and returns no endpoint with either error.
C2_DefaultEndpointCardinality ==
    (op = "GetDefaultEndpoint" /\ FetchedOK(1)) =>
        LET endpoints == ret.calls[1].resp.val
        IN  /\ ~ret.panic
            /\ Len(endpoints) = 0 => ret.err = ErrNoEndpointsAvailable
            /\ Len(endpoints) = 1 => ret.err = Nil /\ ret.val = endpoints[1]
            /\ Len(endpoints) >= 2 => ret.err = ErrSeveralEndpointsAvailable
            /\ ret.err # Nil => ret.val = ZeroEndpoint

C2_Witness ==
    /\ op = "GetDefaultEndpoint"
    /\ FetchedOK(1)
    /\ Len(ret.calls[1].resp.val) = 2
    /\ ret.err = ErrSeveralEndpointsAvailable
    /\ ret.val = ZeroEndpoint

(* -------------------------------- C3 ----------------------------------- *)

\* The AccessControl the decorated resource was decoded with: nested under
\* Portainer for a Docker resource, a direct field for a stack.
DecodedAccessControl ==
    IF op = "GetDockerResourcePortainerAccessControl"
    THEN ret.calls[1].resp.val.Portainer.ResourceControl
    ELSE ret.calls[3].resp.val.ResourceControl

DecoratedFetchedOK ==
    \/ op = "GetDockerResourcePortainerAccessControl" /\ FetchedOK(1)
    \/ op = "GetStackPortainerAccessControl" /\ FetchedOK(3)

\* C3: in both access-control variants, once the decorated resource was
\* fetched without error, an AccessControl with identifier 0 is reported as
\* ErrAccessControlNotFound whatever its other fields, and one with another
\* identifier is returned unchanged with no error.
C3_AccessControlSentinel ==
    DecoratedFetchedOK =>
        /\ ~ret.panic
        /\ DecodedAccessControl.ID = 0 => ret.err = ErrAccessControlNotFound
        /\ DecodedAccessControl.ID # 0 =>
               ret.err = Nil /\ ret.val = DecodedAccessControl

\* A stack's AccessControl with identifier 0 and another field set.
C3_Witness ==
    /\ op = "GetStackPortainerAccessControl"
    /\ FetchedOK(3)
    /\ DecodedAccessControl.ID = 0
    /\ DecodedAccessControl.ResourceID # ""
    /\ ret.err = ErrAccessControlNotFound

(* -------------------------------- C4 ----------------------------------- *)

\* C4 as stated: on a path whose intermediate values are mappings,
\* selectValue returns the value of the manual walk and reports
\* valueNotFoundError if and only if some key of the path is absent.
C4_NotFoundIffKeyAbsent ==
    (op = "selectValue" /\ IntermediatesAreMaps(args.jsonMap, args.jsonPath)) =>
        LET doc == args.jsonMap
            path == args.jsonPath
        IN  /\ ~ret.panic
            /\ ret.err = valueNotFoundError <=> SomeKeyAbsent(doc, path)
            /\ ~SomeKeyAbsent(doc, path) =>
                   ret.err = Nil /\ ret.val = WalkTo(doc, path, Len(path))

\* C4 amended: on a path whose intermediate values are mappings,
\* selectValue reports valueNotFoundError if and only if some key of the
\* path is absent or the last key maps to null, and otherwise returns the
\* value of the manual walk with no error.
C4_NotFoundIffAbsentOrNull ==
    (op = "selectValue" /\ IntermediatesAreMaps(args.jsonMap, args.jsonPath)) =>
        LET doc == args.jsonMap
            path == args.jsonPath
            leaf == WalkTo(doc, path, Len(path))
            missing == SomeKeyAbsent(doc, path) \/ leaf = Null
        IN  /\ ~ret.panic
            /\ ret.err = valueNotFoundError <=> missing
            /\ missing => ret.val = Null
            /\ ~missing => ret.err = Nil /\ ret.val = leaf

\* The last key is present, two levels down, and maps to null.
C4_Witness ==
    /\ op = "selectValue"
    /\ Len(args.jsonPath) = 2
    /\ IntermediatesAreMaps(args.jsonMap, args.jsonPath)
    /\ ~SomeKeyAbsent(args.jsonMap, args.jsonPath)
    /\ WalkTo(args.jsonMap, args.jsonPath, 2) = Null
    /\ ret.err = valueNotFoundError

(* -------------------------------- C5 ----------------------------------- *)

\* C5: when a value before the last key is present but is no mapping,
\* selectValue returns an error other than valueNotFoundError, and
\* GetEndpointSwarmClusterID returns that error, not
\* ErrStackClusterNotFound; both return instead of aborting.
C5_ShapeErrorReturned ==
    /\ (op = "selectValue" /\ ScalarOnPath(args.jsonMap, args.jsonPath)) =>
           ~ret.panic /\ ret.err \notin {Nil, valueNotFoundError}
    /\ (/\ op = "GetEndpointSwarmClusterID"
        /\ FetchedOK(1)
        /\ ScalarOnPath(ret.calls[1].resp.val, SwarmClusterIDPath)) =>
           /\ ~ret.panic
           /\ ret.err \notin {Nil, valueNotFoundError, ErrStackClusterNotFound}

(* -------------------------------- C6 ----------------------------------- *)

\* C6: after a successful docker-info fetch, GetEndpointSwarmClusterID
\* returns ErrStackClusterNotFound and an empty identifier when a key of
\* Swarm, Cluster, ID is missing from the document, and returns the string
\* held at Swarm.Cluster.ID with no error when there is one.
C6_SwarmClusterID ==
    (op = "GetEndpointSwarmClusterID" /\ FetchedOK(1)) =>
        LET doc == ret.calls[1].resp.val
            leaf == WalkTo(doc, SwarmClusterIDPath, Len(SwarmClusterIDPath))
        IN  /\ SomeKeyAbsent(doc, SwarmClusterIDPath) =>
                   ~ret.panic /\ ret.err = ErrStackClusterNotFound /\ ret.val = ""
            /\ leaf.kind = "string" =>
                   ~ret.panic /\ ret.err = Nil /\ ret.val = leaf.s

\* The document holds Swarm and Cluster but Cluster has no ID.
C6_Witness ==
    /\ op = "GetEndpointSwarmClusterID"
    /\ FetchedOK(1)
    /\ WalkTo(ret.calls[1].resp.val, SwarmClusterIDPath, 2).kind = "map"
    /\ WalkTo(ret.calls[1].resp.val, SwarmClusterIDPath, 3) = Absent
    /\ ret.err = ErrStackClusterNotFound
    /\ ret.val = ""

(* -------------------------------- C7 ----------------------------------- *)

\* C7: whenever a call to the API client returns an error, the enclosing
\* operation returns that same error to its caller.
C7_TransportErrorPropagates ==
    op # "none" =>
        \A i \in 1..NumCalls :
            ret.calls[i].resp.err # Nil =>
                ~ret.panic /\ ret.err = ret.calls[i].resp.err

(* -------------------------------- C8 ----------------------------------- *)

ZeroValue(o) ==
    CASE o \in {"GetDefaultEndpoint", "GetEndpointByName",
                "GetEndpointFromListByID", "GetEndpointFromListByName"} -> ZeroEndpoint
      [] o = "GetEndpointGroupByName" -> ZeroEndpointGroup
      [] o = "GetStackByName" -> ZeroStack
      [] o = "GetUserByName" -> ZeroUser
      [] o = "GetEndpointSwarmClusterID" -> ""
      [] o \in {"GetDockerResourcePortainerAccessControl",
                "GetStackPortainerAccessControl"} -> ZeroResourceControl

\* C8: every resolver and access-control function that returns, returns
\* either no error, or an error together with the zero value of its result.
C8_ResultOrError ==
    (Returned /\ op # "selectValue") =>
        (ret.err # Nil => ret.val = ZeroValue(op))

(* -------------------------------- C9 ----------------------------------- *)

StackAccessControlOrder == <<"EndpointDockerInfo", "StackList", "DoJSONWithToken">>

\* GetEndpointSwarmClusterID, as the first stage, ends in
\* ErrStackClusterNotFound: the document was fetched and the selector found
\* no value on the path.
ClusterNotFound ==
    /\ FetchedOK(1)
    /\ LET doc == ret.calls[1].resp.val
       IN  /\ IntermediatesAreMaps(doc, SwarmClusterIDPath)
           /\ \/ SomeKeyAbsent(doc, SwarmClusterIDPath)
              \/ WalkTo(doc, SwarmClusterIDPath, 3) = Null

\* C9: GetStackPortainerAccessControl resolves the swarm cluster, then the
\* stack by name, then issues the GET.  After ErrStackClusterNotFound it
\* lists stacks with an empty swarm filter and the given endpoint; after any
\* other error of the first stage it returns that error with no further
\* call; after a failed stack resolution the GET is not issued; and
\* ErrStackClusterNotFound is never its final error.
C9_StackAccessControlOrder ==
    op = "GetStackPortainerAccessControl" =>
        /\ NumCalls <= 3
        /\ \A i \in 1..NumCalls : ret.calls[i].api = StackAccessControlOrder[i]
        /\ ClusterNotFound =>
               /\ NumCalls >= 2
               /\ ret.calls[2].arg = [SwarmID |-> "", EndpointID |-> args.endpointID]
        /\ NumCalls = 0 => ret.err \in GetClientResults \ {Nil}
        /\ (NumCalls >= 1 /\ ret.calls[1].resp.err # Nil) =>
               NumCalls = 1 /\ ret.err = ret.calls[1].resp.err
        /\ (/\ NumCalls >= 2
            /\ \/ ret.calls[2].resp.err # Nil
               \/ Matches(ret.calls[2].resp.val, "Name", args.stackName) = {}) =>
               /\ NumCalls = 2
               /\ ret.err = IF ret.calls[2].resp.err # Nil
                            THEN ret.calls[2].resp.err
                            ELSE ErrStackNotFound
        /\ NumCalls = 3 => ret.calls[3].arg = StackPath(ret.calls[2].resp.val[
               CHOOSE i \in Matches(ret.calls[2].resp.val, "Name", args.stackName) :
                   \A j \in Matches(ret.calls[2].resp.val, "Name", args.stackName) : i <= j].ID)
        /\ ~ret.panic => ret.err # ErrStackClusterNotFound

\* The endpoint has no swarm cluster and the operation still reaches the
\* GET and returns an AccessControl.
C9_Witness ==
    /\ op = "GetStackPortainerAccessControl"
    /\ ClusterNotFound
    /\ NumCalls = 3
    /\ ret.calls[2].arg.SwarmID = ""
    /\ ret.err = Nil
    /\ ret.val.ID # 0

(* -------------------------------- C10 ---------------------------------- *)

FetchingOps == {"GetDefaultEndpoint", "GetEndpointByName", "GetEndpointGroupByName",
                "GetStackByName", "GetUserByName", "GetEndpointSwarmClusterID",
                "GetDockerResourcePortainerAccessControl",
                "GetStackPortainerAccessControl"}

ListLookupOps == {"GetEndpointFromListByID", "GetEndpointFromListByName"}

\* No round trip is made twice within one invocation.
NoRetry ==
    \A i, j \in 1..NumCalls :
        (ret.calls[i].api = ret.calls[j].api /\ ret.calls[i].arg = ret.calls[j].arg) => i = j

\* GetClient handed out the client (its failure is the only way to end
\* with that error).
ClientObtained == ~(~ret.panic /\ ret.err \in GetClientResults \ {Nil})

\* C10 as stated: every resolver and access-control operation that has its
\* client issues one or two round trips per invocation, none of them a
\* retry, and the list lookup helpers issue none.
C10_OneOrTwoRoundTrips ==
    /\ (op \in FetchingOps /\ ClientObtained) => NumCalls \in {1, 2} /\ NoRetry
    /\ op \in ListLookupOps => NumCalls = 0

\* C10 amended: GetStackPortainerAccessControl issues at most three round
\* trips and every other resolver or access-control operation at most one;
\* each issues at least one unless GetClient fails, and then none; no call
\* is retried; the list lookup helpers issue none.
C10_AtMostThreeRoundTrips ==
    /\ op \in FetchingOps =>
           /\ NumCalls <= (IF op = "GetStackPortainerAccessControl" THEN 3 ELSE 1)
           /\ NumCalls = 0 <=> ~ClientObtained
           /\ NoRetry
           /\ \A i \in 1..(NumCalls - 1) : ret.calls[i].resp.err = Nil
    /\ op \in ListLookupOps => NumCalls = 0

\* Three round trips in one invocation.
C10_Witness ==
    /\ op = "GetStackPortainerAccessControl"
    /\ NumCalls = 3
    /\ ret.calls[1].api = "EndpointDockerInfo"
    /\ ret.calls[2].api = "StackList"
    /\ ret.calls[3].api = "DoJSONWithToken"

====
